---- MODULE Spec2Model ----
(***************************************************************************)
(* Adjacent News API gateway (src/src/index.ts).                           *)
(*                                                                         *)
(* The file holds two snapshots of the gateway.  Snapshot 1 (lines 1-251)  *)
(* serves the news lookup, the market listing and the related markets by   *)
(* headline routes; snapshot 2 (lines 252-384) serves the first two only.  *)
(* A request is a process: it is received by its handler, which runs up to *)
(* its first await, and every reply of an external collaborator resumes    *)
(* the handler up to its next await or to its end.  Requests interleave at *)
(* the awaits, as they do on the JavaScript event loop.                    *)
(***************************************************************************)
EXTENDS Integers, Sequences, FiniteSets

VARIABLES pc, request, status, number, response, thrown, issued, replies

vars == <<pc, request, status, number, response, thrown, issued, replies>>

(***************************************************************************)
(* Bounds of the model.                                                    *)
(***************************************************************************)
NumReqs == 2
MaxIndexLen == 3
MaxDatasetLen == 103
MaxDocs == 3
MaxResultId == 2
MaxEmbeddingId == 2

Requests == 1..NumReqs

(***************************************************************************)
(* Program constants.                                                      *)
(***************************************************************************)
WindowSize == 100
StatusOk == 200
StatusError == 500

NewsApology == "An error occurred while fetching news articles. Please try again later."
NoRelatedMarkets == "No related markets. Explore at https://data.adj.news"
ProcessingError == "Error processing your request. Please try again later."

Min(a, b) == IF a < b THEN a ELSE b
Max(a, b) == IF a > b THEN a ELSE b

(***************************************************************************)
(* JSON values a handler hands to c.json.  One record shape for all of     *)
(* them: a string, an array holding one string, an array of market         *)
(* records, the provider's opaque result object, or undefined.             *)
(***************************************************************************)
TextBody(s) == [kind |-> "text", text |-> s, items |-> <<>>, obj |-> 0]
TextArrayBody(s) == [kind |-> "textarray", text |-> s, items |-> <<>>, obj |-> 0]
ListBody(xs) == [kind |-> "list", text |-> "", items |-> xs, obj |-> 0]
ObjectBody(n) == [kind |-> "object", text |-> "", items |-> <<>>, obj |-> n]
UndefinedBody == [kind |-> "undefined", text |-> "", items |-> <<>>, obj |-> 0]

NoResponse == [sent |-> FALSE, status |-> 0, body |-> UndefinedBody]
NoRequest == [route |-> "none", version |-> 0, present |-> FALSE, index |-> <<>>, text |-> ""]

(***************************************************************************)
(* Replies of the external collaborators.                                  *)
(***************************************************************************)
Reply(to, kind, items, obj) == [to |-> to, kind |-> kind, items |-> items, obj |-> obj]

(* A JavaScript number as parseInt yields it: NaN or an integer. *)
NaN == [nan |-> TRUE, n |-> 0]
Num(k) == [nan |-> FALSE, n |-> k]


(***************************************************************************)
(* parseInt(index), radix 10 (index.ts:178, :374): leading white space is  *)
(* skipped, one sign is read, the longest prefix of decimal digits is the  *)
(* value, and no digit at all gives NaN.  The strings of the model hold no *)
(* "x", so the 0x prefix of parseInt never applies.                        *)
(***************************************************************************)
Digits == <<"0", "1", "2", "3", "4", "5", "6", "7", "8", "9">>

IsDigit(c) == \E d \in 1..10 : Digits[d] = c

DigitVal(c) == (CHOOSE d \in 1..10 : Digits[d] = c) - 1

RECURSIVE TrimStart(_)
TrimStart(s) == IF s # <<>> /\ Head(s) = " " THEN TrimStart(Tail(s)) ELSE s

RECURSIVE DigitPrefix(_)
DigitPrefix(s) ==
    IF s # <<>> /\ IsDigit(Head(s)) THEN <<Head(s)>> \o DigitPrefix(Tail(s)) ELSE <<>>

RECURSIVE DigitsValue(_, _)
DigitsValue(ds, acc) ==
    IF ds = <<>> THEN acc ELSE DigitsValue(Tail(ds), 10 * acc + DigitVal(Head(ds)))

ParseInt(s) ==
    LET t == TrimStart(s)
        neg == t # <<>> /\ Head(t) = "-"
        signed == t # <<>> /\ Head(t) \in {"-", "+"}
        z == DigitPrefix(IF signed THEN Tail(t) ELSE t)
    IN  IF z = <<>> THEN NaN
        ELSE Num((IF neg THEN -1 ELSE 1) * DigitsValue(z, 0))

(* `number + 100` on a JavaScript number: NaN stays NaN. *)
JsAdd(x, m) == IF x.nan THEN NaN ELSE Num(x.n + m)

(***************************************************************************)
(* Array.prototype.slice(start, end) as called at index.ts:182 and :379:   *)
(* NaN counts as 0, a negative bound counts from the end of the array, and *)
(* both bounds are clamped to the array.                                   *)
(***************************************************************************)
ToIntegerOrInfinity(x) == IF x.nan THEN 0 ELSE x.n

RelativeIndex(k, len) == IF k < 0 THEN Max(len + k, 0) ELSE Min(k, len)

JsSliceKeepLast(D, start, end) ==
    LET len == Len(D)
        k == Min(RelativeIndex(ToIntegerOrInfinity(start), len), Max(len - 1, 0))
        final == RelativeIndex(ToIntegerOrInfinity(end), len)
        count == Max(final - k, 0)
    IN  [i \in 1..count |-> D[k + i]]

JsSliceFromZero(D, start, end) ==
    LET len == Len(D)
        k == RelativeIndex(ToIntegerOrInfinity(start), len)
        final == RelativeIndex(ToIntegerOrInfinity(end), len)
        count == Max(final - k, 0)
    IN  [i \in 1..count |-> D[i]]

JsSlice(D, start, end) ==
    LET len == Len(D)
        k == RelativeIndex(ToIntegerOrInfinity(start), len)
        final == RelativeIndex(ToIntegerOrInfinity(end), len)
        count == Max(final - k, 0)
    IN  [i \in 1..count |-> D[k + i]]

(***************************************************************************)
(* Market listing handler: the offset and the body of the response.        *)
(***************************************************************************)
MarketsNumber(present, index) ==
    IF ~present \/ index = <<>> THEN Num(0) ELSE ParseInt(index)

MarketsBody(rep, num) ==
    IF rep.kind = "undefined" THEN UndefinedBody
    ELSE ListBody(JsSlice(rep.items, num, JsAdd(num, WindowSize)))

(***************************************************************************)
(* c.status(code): the status of the context of request r only.            *)
(***************************************************************************)
SetStatusShared(st, r, code) == [q \in DOMAIN st |-> code]

SetStatus(st, r, code) == [st EXCEPT ![r] = code]

(***************************************************************************)
(* News lookup handler: the catch of exa.search and the value of results.  *)
(***************************************************************************)
NewsCatchKeepStatus(st, r, rep) == st

NewsCatch(st, r, rep) ==
    IF rep.kind = "reject" THEN SetStatus(st, r, StatusError) ELSE st

NewsResults(rep) ==
    IF rep.kind = "reject" THEN TextArrayBody(NewsApology) ELSE ObjectBody(rep.obj)

(***************************************************************************)
(* Related markets by headline handler.                                    *)
(***************************************************************************)
EmbedFailedOnRejectOnly(rep) == rep.kind = "reject"

(* fetch rejected, or `!response.ok` threw *)
EmbedFailed(rep) == rep.kind \in {"reject", "notok"}

(* useRelatedMarkets: `data` of the RPC result, or [] from its catch *)
RpcDocuments(rep) ==
    CASE rep.kind = "reject" -> [null |-> FALSE, items |-> <<>>]
      [] rep.kind = "null" -> [null |-> TRUE, items |-> <<>>]
      [] OTHER -> [null |-> FALSE, items |-> rep.items]

StripEmbeddingKeepAll(market) == market

(* const { question_embedding, ...rest } = market *)
StripEmbedding(market) ==
    [f \in DOMAIN market \ {"question_embedding"} |-> market[f]]

MapStrip(markets) == [i \in 1..Len(markets) |-> StripEmbedding(markets[i])]

HeadlineBody(at, rep) ==
    IF at \in {"embed", "json"} THEN TextBody(ProcessingError)
    ELSE LET documents == RpcDocuments(rep)
         IN  IF documents.null THEN TextBody(ProcessingError)
             ELSE LET markets == MapStrip(documents.items)
                  IN  IF Len(markets) > 0 THEN ListBody(markets)
                      ELSE TextBody(NoRelatedMarkets)

(***************************************************************************)
(* Where a handler continues when the call it awaits at `at` has replied:  *)
(* the next await, or "done".                                              *)
(***************************************************************************)
Outbound == {"search", "fetchAll", "embed", "rpc"}

ResumeRetry(at, rep) ==
    CASE at = "embed" -> IF EmbedFailed(rep) THEN "done" ELSE "json"
      [] at = "json" -> IF rep.kind = "reject" THEN "done" ELSE "rpc"
      [] at = "rpc" -> IF rep.kind = "reject" THEN "rpc" ELSE "done"
      [] at = "search" -> IF rep.kind = "reject" THEN "search" ELSE "done"
      [] OTHER -> "done"

Resume(at, rep) ==
    CASE at = "embed" -> IF EmbedFailed(rep) THEN "done" ELSE "json"
      [] at = "json" -> IF rep.kind = "reject" THEN "done" ELSE "rpc"
      [] OTHER -> "done"


(***************************************************************************)
(* Inputs.                                                                 *)
(***************************************************************************)
Versions == {1, 2}
Chars == {"0", "1", "9", "-", "a", " "}
SeqsUpTo(S, n) == UNION {[1..k -> S] : k \in 0..n}

Absent == [present |-> FALSE, index |-> <<>>]
Present(s) == [present |-> TRUE, index |-> s]
IndexParams == {Absent} \cup {Present(s) : s \in SeqsUpTo(Chars, MaxIndexLen)}
NewsMarkets == {"Will the winner win Pennsylvania?"}
Headlines == {"Fed cuts rates", "Election night"}

Dataset(n) == [k \in 1..n |-> [id |-> k]]

MatchedMarkets ==
    { [id |-> 1, similarity |-> 9, question_embedding |-> 7],
      [id |-> 2, similarity |-> 8, question_embedding |-> 5],
      [id |-> 3, similarity |-> 8] }

SearchReplies ==
    {Reply("search", "reject", <<>>, 0)}
        \cup {Reply("search", "ok", <<>>, n) : n \in 1..MaxResultId}

FetchAllReplies(lens) ==
    {Reply("fetchAll", "reject", <<>>, 0), Reply("fetchAll", "undefined", <<>>, 0)}
        \cup {Reply("fetchAll", "ok", Dataset(n), 0) : n \in lens}

EmbedReplies == {Reply("embed", k, <<>>, 0) : k \in {"ok", "notok", "reject"}}

JsonReplies ==
    {Reply("json", "reject", <<>>, 0)}
        \cup {Reply("json", "ok", <<>>, e) : e \in 1..MaxEmbeddingId}

RpcReplies(maxDocs) ==
    {Reply("rpc", "reject", <<>>, 0), Reply("rpc", "null", <<>>, 0)}
        \cup {Reply("rpc", "ok", d, 0) : d \in SeqsUpTo(MatchedMarkets, maxDocs)}

(* Inputs of the interleaved specification: a few of each kind. *)
SomeIndexParams == {Absent, Present(<<"1">>), Present(<<"-", "1">>), Present(<<"a">>)}
SomeDatasetLens == {0, 2}
SomeHeadlines == {"Fed cuts rates"}
SomeRpcReplies ==
    {Reply("rpc", "reject", <<>>, 0), Reply("rpc", "null", <<>>, 0),
     Reply("rpc", "ok", <<>>, 0)}
        \cup {Reply("rpc", "ok", <<m>>, 0) : m \in MatchedMarkets}

(***************************************************************************)
(* State after construction: no request has arrived.                       *)
(***************************************************************************)
Init ==
    /\ pc = [r \in Requests |-> "idle"]
    /\ request = [r \in Requests |-> NoRequest]
    /\ status = [r \in Requests |-> StatusOk]
    /\ number = [r \in Requests |-> Num(0)]
    /\ response = [r \in Requests |-> NoResponse]
    /\ thrown = [r \in Requests |-> FALSE]
    /\ issued = [r \in Requests |-> <<>>]
    /\ replies = [r \in Requests |-> <<>>]

(* The handler of request r goes on from a reply to its next await or end. *)
Continue(r, at, rep, st, body) ==
    LET next == Resume(at, rep)
    IN  /\ pc' = [pc EXCEPT ![r] = next]
        /\ status' = st
        /\ issued' = IF next \in Outbound
                     THEN [issued EXCEPT ![r] = Append(@, next)]
                     ELSE issued
        /\ response' = IF next = "done"
                       THEN [response EXCEPT ![r] =
                                [sent |-> TRUE, status |-> st[r], body |-> body]]
                       ELSE response
        /\ replies' = [replies EXCEPT ![r] = Append(@, rep)]

(***************************************************************************)
(* News lookup handler, GET /api/news/{market}.                            *)
(***************************************************************************)
ReceiveNews(r, v, market) ==
    /\ pc[r] = "idle"
    /\ request' = [request EXCEPT ![r] =
            [route |-> "news", version |-> v, present |-> TRUE,
             index |-> <<>>, text |-> market]]
    /\ pc' = [pc EXCEPT ![r] = "search"]
    /\ issued' = [issued EXCEPT ![r] = Append(@, "search")]
    /\ UNCHANGED <<status, number, response, thrown, replies>>

SearchReply(r, rep) ==
    /\ pc[r] = "search"
    /\ Continue(r, "search", rep, NewsCatch(status, r, rep), NewsResults(rep))
    /\ UNCHANGED <<request, number, thrown>>

(***************************************************************************)
(* Market listing handler, GET /api/markets/{index}.                       *)
(***************************************************************************)
ReceiveMarkets(r, v, p) ==
    /\ pc[r] = "idle"
    /\ request' = [request EXCEPT ![r] =
            [route |-> "markets", version |-> v, present |-> p.present,
             index |-> p.index, text |-> ""]]
    /\ number' = [number EXCEPT ![r] = MarketsNumber(p.present, p.index)]
    /\ pc' = [pc EXCEPT ![r] = "fetchAll"]
    /\ issued' = [issued EXCEPT ![r] = Append(@, "fetchAll")]
    /\ UNCHANGED <<status, response, thrown, replies>>

FetchAllReply(r, rep) ==
    /\ pc[r] = "fetchAll"
    /\ IF rep.kind = "reject"
       THEN /\ pc' = [pc EXCEPT ![r] = "done"]
            /\ thrown' = [thrown EXCEPT ![r] = TRUE]
            /\ replies' = [replies EXCEPT ![r] = Append(@, rep)]
            /\ UNCHANGED <<status, issued, response>>
       ELSE /\ Continue(r, "fetchAll", rep, status, MarketsBody(rep, number[r]))
            /\ UNCHANGED thrown
    /\ UNCHANGED <<request, number>>

(***************************************************************************)
(* Related markets by headline handler,                                    *)
(* GET /api/markets/headline/{headline} (snapshot 1 only).                 *)
(***************************************************************************)
ReceiveHeadline(r, headline) ==
    /\ pc[r] = "idle"
    /\ request' = [request EXCEPT ![r] =
            [route |-> "headline", version |-> 1, present |-> TRUE,
             index |-> <<>>, text |-> headline]]
    /\ pc' = [pc EXCEPT ![r] = "embed"]
    /\ issued' = [issued EXCEPT ![r] = Append(@, "embed")]
    /\ UNCHANGED <<status, number, response, thrown, replies>>

EmbedReply(r, rep) ==
    /\ pc[r] = "embed"
    /\ Continue(r, "embed", rep, status, HeadlineBody("embed", rep))
    /\ UNCHANGED <<request, number, thrown>>

JsonReply(r, rep) ==
    /\ pc[r] = "json"
    /\ Continue(r, "json", rep, status, HeadlineBody("json", rep))
    /\ UNCHANGED <<request, number, thrown>>

RpcReply(r, rep) ==
    /\ pc[r] = "rpc"
    /\ Continue(r, "rpc", rep, status, HeadlineBody("rpc", rep))
    /\ UNCHANGED <<request, number, thrown>>

(***************************************************************************)
(* Specifications.  Spec interleaves the requests of all three routes;     *)
(* SpecListing and SpecHeadline run one request of one route over the full *)
(* range of its inputs and replies.                                        *)
(***************************************************************************)
Next ==
    \E r \in Requests :
        \/ \E v \in Versions, m \in NewsMarkets : ReceiveNews(r, v, m)
        \/ \E rep \in SearchReplies : SearchReply(r, rep)
        \/ \E v \in Versions, p \in SomeIndexParams : ReceiveMarkets(r, v, p)
        \/ \E rep \in FetchAllReplies(SomeDatasetLens) : FetchAllReply(r, rep)
        \/ \E h \in SomeHeadlines : ReceiveHeadline(r, h)
        \/ \E rep \in EmbedReplies : EmbedReply(r, rep)
        \/ \E rep \in JsonReplies : JsonReply(r, rep)
        \/ \E rep \in SomeRpcReplies : RpcReply(r, rep)

Spec == Init /\ [][Next]_vars

NextListing ==
    \/ \E v \in Versions, p \in IndexParams : ReceiveMarkets(1, v, p)
    \/ \E rep \in FetchAllReplies(0..MaxDatasetLen) : FetchAllReply(1, rep)

SpecListing == Init /\ [][NextListing]_vars

NextHeadline ==
    \/ \E h \in Headlines : ReceiveHeadline(1, h)
    \/ \E rep \in EmbedReplies : EmbedReply(1, rep)
    \/ \E rep \in JsonReplies : JsonReply(1, rep)
    \/ \E rep \in RpcReplies(MaxDocs) : RpcReply(1, rep)

SpecHeadline == Init /\ [][NextHeadline]_vars


(***************************************************************************)
(* Vocabulary of the properties.                                           *)
(***************************************************************************)
Done(r) == pc[r] = "done"
Route(r) == request[r].route
Replied(r, to, kinds) ==
    \E i \in 1..Len(replies[r]) : replies[r][i].to = to /\ replies[r][i].kind \in kinds
LastReply(r) == replies[r][Len(replies[r])]
Count(seq, x) == Cardinality({i \in 1..Len(seq) : seq[i] = x})
FixedMessage(body) ==
    /\ body.kind \in {"text", "textarray"}
    /\ body.text \in {NewsApology, ProcessingError}

(***************************************************************************)
(* C1: in the news lookup handler of either snapshot, a rejected provider  *)
(* search still ends in a response, of status 500, whose JSON body holds   *)
(* the fixed apology text; nothing is thrown out of the handler.           *)
(***************************************************************************)
C1_NewsFailureIs500 ==
    \A r \in Requests :
        (Route(r) = "news" /\ Replied(r, "search", {"reject"})) =>
            /\ Done(r)
            /\ ~thrown[r]
            /\ response[r].sent
            /\ response[r].status = 500
            /\ response[r].body.kind = "textarray"
            /\ response[r].body.text = NewsApology

C1_Witness ==
    \E r1, r2 \in Requests :
        /\ request[r1].version = 1 /\ request[r2].version = 2
        /\ \A r \in {r1, r2} :
              Route(r) = "news" /\ Replied(r, "search", {"reject"}) /\ response[r].sent

(***************************************************************************)
(* C2: in the related markets by headline handler, whenever no related     *)
(* market came back (an empty list, a null result, or a failed match RPC)  *)
(* the body of the response is the "No related markets" sentinel.          *)
(***************************************************************************)
C2_NoMatchIsSentinel ==
    \A r \in Requests :
        ( /\ Route(r) = "headline"
          /\ Done(r)
          /\ \/ Replied(r, "rpc", {"reject", "null"})
             \/ \E i \in 1..Len(replies[r]) :
                    /\ replies[r][i].to = "rpc"
                    /\ replies[r][i].kind = "ok"
                    /\ replies[r][i].items = <<>> ) =>
            /\ response[r].sent
            /\ response[r].body = TextBody(NoRelatedMarkets)

(***************************************************************************)
(* C3: in the market listing handler, for every dataset and every offset   *)
(* at or beyond its length, the response is the empty list with a success  *)
(* status, never an error.                                                 *)
(***************************************************************************)
C3_OffsetBeyondIsEmpty ==
    \A r \in Requests :
        ( /\ Route(r) = "markets"
          /\ Replied(r, "fetchAll", {"ok"})
          /\ ~number[r].nan
          /\ number[r].n >= Len(LastReply(r).items) ) =>
            /\ ~thrown[r]
            /\ response[r].sent
            /\ response[r].status = 200
            /\ response[r].body.kind = "list"
            /\ response[r].body.items = <<>>

C3_Witness ==
    \E r \in Requests :
        /\ Route(r) = "markets"
        /\ request[r].index = <<"1", "0", "0">>
        /\ Replied(r, "fetchAll", {"ok"})
        /\ Len(LastReply(r).items) = 100
        /\ response[r].sent

(***************************************************************************)
(* C4, as claimed: for every dataset D and every index (absent, 0,         *)
(* positive, negative, not a number) the listing holds at most 100         *)
(* records, a contiguous run of D in order, whose first record is          *)
(* D[offset]; a numeric offset from 0 on gets the full window.             *)
(***************************************************************************)
Contiguous(items, D) ==
    \E s \in 0..Len(D) :
        /\ s + Len(items) <= Len(D)
        /\ \A i \in 1..Len(items) : items[i] = D[s + i]

C4_SliceStartsAtOffset ==
    \A r \in Requests :
        (Route(r) = "markets" /\ Replied(r, "fetchAll", {"ok"})) =>
            LET D == LastReply(r).items
                items == response[r].body.items
                off == number[r]
            IN  /\ response[r].sent
                /\ response[r].body.kind = "list"
                /\ Len(items) <= 100
                /\ Contiguous(items, D)
                /\ items # <<>> =>
                      /\ ~off.nan
                      /\ off.n >= 0
                      /\ off.n < Len(D)
                      /\ items[1] = D[off.n + 1]
                /\ (~off.nan /\ off.n >= 0) =>
                      Len(items) = Min(100, Max(Len(D) - off.n, 0))

(***************************************************************************)
(* C4, amended: the listing holds at most 100 records, a contiguous run of *)
(* D in order: exactly the records at the 0-based positions p of D with    *)
(* lo <= p < hi, where lo is the offset and hi is the offset plus 100,     *)
(* each counted from the end of D when negative.  So an offset n >= 0      *)
(* starts at D[n], a negative offset -k starts at D[|D| - k] (or at D[0])  *)
(* and ends before position 100 - k, and an index that is not a number     *)
(* gives the empty list.                                                   *)
(***************************************************************************)
FromEnd(k, len) == IF k < 0 THEN len + k ELSE k

C4_SliceRelativeToEnd ==
    \A r \in Requests :
        (Route(r) = "markets" /\ Replied(r, "fetchAll", {"ok"})) =>
            LET D == LastReply(r).items
                items == response[r].body.items
                off == number[r]
                lo == FromEnd(off.n, Len(D))
                hi == FromEnd(off.n + 100, Len(D))
                positions == {p \in 0..(Len(D) - 1) : lo <= p /\ p < hi}
            IN  /\ response[r].sent
                /\ response[r].body.kind = "list"
                /\ Len(items) <= 100
                /\ Contiguous(items, D)
                /\ off.nan => items = <<>>
                /\ ~off.nan =>
                      /\ Len(items) = Cardinality(positions)
                      /\ \A i \in 1..Len(items) :
                            /\ Max(lo, 0) + i - 1 \in positions
                            /\ items[i] = D[Max(lo, 0) + i]
                /\ (~off.nan /\ off.n >= 0 /\ off.n < Len(D)) =>
                      /\ items[1] = D[off.n + 1]
                      /\ Len(items) = Min(100, Len(D) - off.n)

C4_Witness ==
    \E r \in Requests :
        /\ Route(r) = "markets"
        /\ request[r].index = <<"-", "9">>
        /\ Replied(r, "fetchAll", {"ok"})
        /\ Len(LastReply(r).items) = 99
        /\ response[r].sent
        /\ response[r].body.items = <<[id |-> 91]>>

(***************************************************************************)
(* C5: the failure of an outbound call (provider search, dataset fetch,    *)
(* embedding request, match RPC) is caught inside the handler and turned   *)
(* into an error response; it never leaves the handler as an exception.    *)
(***************************************************************************)
C5_FailuresCaught ==
    \A r \in Requests :
        (\E i \in 1..Len(replies[r]) :
            /\ replies[r][i].to \in Outbound
            /\ replies[r][i].kind \in {"reject", "notok", "null"}) =>
            /\ ~thrown[r]
            /\ response[r].sent
            /\ response[r].status = 500 \/ FixedMessage(response[r].body)

(***************************************************************************)
(* C6: an upstream failure (a rejected provider or RPC call, an embedding  *)
(* request that is rejected or not OK) is reported as a fixed message with *)
(* HTTP status 500, in the headline handler as in the news handler.        *)
(***************************************************************************)
C6_UpstreamFailureIs500 ==
    \A r \in Requests :
        ( \/ Replied(r, "search", {"reject"})
          \/ Replied(r, "embed", {"reject", "notok"})
          \/ Replied(r, "rpc", {"reject"}) ) =>
            /\ response[r].sent
            /\ response[r].status = 500
            /\ FixedMessage(response[r].body)

OwnStatus(req, reps) ==
    IF req.route = "news" /\ \E i \in 1..Len(reps) : reps[i].kind = "reject"
    THEN 500 ELSE 200

OwnBody(req, reps) ==
    LET last == reps[Len(reps)]
    IN  CASE req.route = "news" -> NewsResults(last)
          [] req.route = "markets" ->
                MarketsBody(last, MarketsNumber(req.present, req.index))
          [] OTHER -> HeadlineBody(last.to, last)

C8_Isolation ==
    \A r \in Requests :
        /\ status[r] = OwnStatus(request[r], replies[r])
        /\ number[r] = IF Route(r) = "markets"
                       THEN MarketsNumber(request[r].present, request[r].index)
                       ELSE Num(0)
        /\ thrown[r] = (Route(r) = "markets" /\ Replied(r, "fetchAll", {"reject"}))
        /\ response[r].sent =>
              /\ replies[r] # <<>>
              /\ response[r].status = OwnStatus(request[r], replies[r])
              /\ response[r].body = OwnBody(request[r], replies[r])
        /\ ~response[r].sent => response[r] = NoResponse

C8_Witness ==
    \E r1, r2 \in Requests :
        /\ r1 # r2
        /\ Route(r1) = "news" /\ Replied(r1, "search", {"reject"})
        /\ response[r1].sent /\ response[r1].status = 500
        /\ Route(r2) = "headline" /\ pc[r2] = "rpc"
        /\ status[r2] = 200 /\ ~response[r2].sent

(***************************************************************************)
(* C9: when the headline handler answers with a list of markets, it holds  *)
(* the records of the match RPC in the same number and order, none with a  *)
(* question_embedding field and each with all its other fields unchanged.  *)
(***************************************************************************)
C9_EmbeddingStripped ==
    \A r \in Requests :
        (Route(r) = "headline" /\ response[r].sent /\ response[r].body.kind = "list") =>
            LET docs == LastReply(r).items
                out == response[r].body.items
            IN  /\ LastReply(r).to = "rpc"
                /\ Len(out) = Len(docs)
                /\ \A i \in 1..Len(out) :
                      /\ "question_embedding" \notin DOMAIN out[i]
                      /\ DOMAIN out[i] = DOMAIN docs[i] \ {"question_embedding"}
                      /\ \A f \in DOMAIN out[i] : out[i][f] = docs[i][f]

C9_Witness ==
    \E r \in Requests :
        /\ Route(r) = "headline"
        /\ response[r].sent
        /\ response[r].body.kind = "list"
        /\ Len(response[r].body.items) = 3
        /\ "question_embedding" \in DOMAIN LastReply(r).items[1]
        /\ "question_embedding" \notin DOMAIN LastReply(r).items[2]
        /\ LastReply(r).items[1] # LastReply(r).items[3]

(***************************************************************************)
(* C10: the match RPC is issued only after the embedding request came back *)
(* OK and its body was parsed; after an embedding request that is rejected *)
(* or not OK the RPC is never issued and the response is the fixed string  *)
(* "Error processing your request. Please try again later."                *)
(***************************************************************************)
C10_RpcAfterEmbedding ==
    \A r \in Requests :
        /\ Count(issued[r], "rpc") > 0 =>
              /\ Len(replies[r]) >= 2
              /\ replies[r][1].to = "embed" /\ replies[r][1].kind = "ok"
              /\ replies[r][2].to = "json" /\ replies[r][2].kind = "ok"
              /\ issued[r] = <<"embed", "rpc">>
        /\ Replied(r, "embed", {"reject", "notok"}) =>
              /\ Count(issued[r], "rpc") = 0
              /\ Done(r)
              /\ response[r].sent
              /\ response[r].body = TextBody(ProcessingError)

C10_Witness ==
    \E r1, r2 \in Requests :
        /\ Replied(r1, "embed", {"notok"}) /\ response[r1].sent
        /\ pc[r2] = "rpc"

====
